---- MODULE Spec2Model ----
(***************************************************************************)
(* Model of the text-to-speech path of the repository:                     *)
(*   src/src/open_llm_vtuber/tts/tts_interface.py  (TTSInterface)          *)
(*   src/src/open_llm_vtuber/tts/siliconflow_tts.py (SiliconFlowTTS)       *)
(*                                                                         *)
(* A Python str is a sequence of characters, each character a one-token    *)
(* string.  The full-width characters are written by their code points.   *)
(* A Python value that may be None is a record [kind, chars].              *)
(***************************************************************************)
EXTENDS Naturals, Sequences, FiniteSets

\* ------------------------------------------------------------------ bounds
MaxLen == 3
MaxSessions == 2
MaxWorkers == 2

\* -------------------------------------------------------------- characters
FullOpen == "U+FF08"
FullClose == "U+FF09"
LentOpen == "U+3010"
LentClose == "U+3011"

OpenBrackets == {"(", FullOpen}
CloseBrackets == {")", FullClose}
Whitespace == {" ", "\n"}

\* ------------------------------------------------------------ Python values
PyNone == [kind |-> "None", chars |-> <<>>]
Str(s) == [kind |-> "str", chars |-> s]
\* `not text`
Falsy(v) == v.kind = "None" \/ v.chars = <<>>

\* "".join of the characters of s picked by the index list idx
Join(s, idx) == [k \in 1..Len(idx) |-> s[idx[k]]]

Range(f) == {f[k] : k \in DOMAIN f}

\* ------------------------------------------------- _filter_stream_text scan
\* The for loop over text from position i on; filtered_chars holds the
\* positions of the characters appended so far.
RECURSIVE ScanNoPersist(_, _, _, _)
ScanNoPersist(text, i, inb, filtered) ==
    IF i > Len(text) THEN [in_brackets |-> FALSE, filtered_chars |-> filtered]
    ELSE IF text[i] \in OpenBrackets THEN ScanNoPersist(text, i + 1, TRUE, filtered)
    ELSE IF text[i] \in CloseBrackets THEN ScanNoPersist(text, i + 1, FALSE, filtered)
    ELSE IF ~inb THEN ScanNoPersist(text, i + 1, inb, Append(filtered, i))
    ELSE ScanNoPersist(text, i + 1, inb, filtered)

RECURSIVE ScanAsciiOnly(_, _, _, _)
ScanAsciiOnly(text, i, inb, filtered) ==
    IF i > Len(text) THEN [in_brackets |-> inb, filtered_chars |-> filtered]
    ELSE IF text[i] = "(" THEN ScanAsciiOnly(text, i + 1, TRUE, filtered)
    ELSE IF text[i] = ")" THEN ScanAsciiOnly(text, i + 1, FALSE, filtered)
    ELSE IF ~inb THEN ScanAsciiOnly(text, i + 1, inb, Append(filtered, i))
    ELSE ScanAsciiOnly(text, i + 1, inb, filtered)

RECURSIVE ScanInverted(_, _, _, _)
ScanInverted(text, i, inb, filtered) ==
    IF i > Len(text) THEN [in_brackets |-> inb, filtered_chars |-> filtered]
    ELSE IF text[i] \in OpenBrackets THEN ScanInverted(text, i + 1, TRUE, filtered)
    ELSE IF text[i] \in CloseBrackets THEN ScanInverted(text, i + 1, FALSE, filtered)
    ELSE IF inb THEN ScanInverted(text, i + 1, inb, Append(filtered, i))
    ELSE ScanInverted(text, i + 1, inb, filtered)

RECURSIVE Scan(_, _, _, _)
Scan(text, i, inb, filtered) ==
    IF i > Len(text) THEN [in_brackets |-> inb, filtered_chars |-> filtered]
    ELSE IF text[i] \in OpenBrackets THEN Scan(text, i + 1, TRUE, filtered)
    ELSE IF text[i] \in CloseBrackets THEN Scan(text, i + 1, FALSE, filtered)
    ELSE IF ~inb THEN Scan(text, i + 1, inb, Append(filtered, i))
    ELSE Scan(text, i + 1, inb, filtered)

\* ------------------------------------------------ re.sub(r'https?://\S+', '')
LitAt(s, i, lit) ==
    /\ i + Len(lit) - 1 <= Len(s)
    /\ SubSeq(s, i, i + Len(lit) - 1) = lit

\* \S+ from position i, greedy: the last position of the run (i - 1: no run)
RECURSIVE NonSpaceEnd(_, _)
NonSpaceEnd(s, i) ==
    IF i <= Len(s) /\ s[i] \notin Whitespace THEN NonSpaceEnd(s, i + 1) ELSE i - 1

\* The last position of the match of https?://\S+ that starts at i, 0 if none
UrlMatchEnd(s, i) ==
    IF ~LitAt(s, i, <<"h", "t", "t", "p">>) THEN 0
    ELSE IF LitAt(s, i + 4, <<"s", ":", "/", "/">>) /\ NonSpaceEnd(s, i + 8) >= i + 8
         THEN NonSpaceEnd(s, i + 8)
    ELSE IF LitAt(s, i + 4, <<":", "/", "/">>) /\ NonSpaceEnd(s, i + 7) >= i + 7
         THEN NonSpaceEnd(s, i + 7)
    ELSE 0

\* The positions of s that re.sub leaves, scanning from i: leftmost matches,
\* one after the other, never overlapping.
RECURSIVE ReSubFirstOnly(_, _)
ReSubFirstOnly(s, i) ==
    IF i > Len(s) THEN <<>>
    ELSE IF UrlMatchEnd(s, i) > 0
         THEN [k \in 1..(Len(s) - UrlMatchEnd(s, i)) |-> UrlMatchEnd(s, i) + k]
    ELSE <<i>> \o ReSubFirstOnly(s, i + 1)

RECURSIVE ReSubKeep(_, _)
ReSubKeep(s, i) ==
    IF i > Len(s) THEN <<>>
    ELSE IF UrlMatchEnd(s, i) > 0 THEN ReSubKeep(s, UrlMatchEnd(s, i) + 1)
    ELSE <<i>> \o ReSubKeep(s, i + 1)

ReSub(s) == Join(s, ReSubKeep(s, 1))

\* ------------------------------------------------------ _filter_stream_text
\* The call on an instance whose attribute exists iff has, with value inb.
\* kept: the positions in text of the characters of the returned string.
FilterStreamText(text, has, inb) ==
    IF Falsy(text)
    THEN [ret |-> text, has |-> has, in_brackets |-> inb,
          pre |-> inb, filtered_chars |-> <<>>, kept |-> <<>>]
    ELSE LET start == IF has THEN inb ELSE FALSE
             sc == Scan(text.chars, 1, start, <<>>)
             joined == Join(text.chars, sc.filtered_chars)
             keep == Join(sc.filtered_chars, ReSubKeep(joined, 1))
         IN [ret |-> Str(Join(text.chars, keep)), has |-> TRUE,
             in_brackets |-> sc.in_brackets, pre |-> start,
             filtered_chars |-> sc.filtered_chars, kept |-> keep]

\* ------------------------------------------- SiliconFlowTTS.generate_audio
\* str.replace(pat, ''): the occurrences of pat from the left, never overlapping
RECURSIVE ReplaceFrom(_, _, _)
ReplaceFrom(s, i, pat) ==
    IF i > Len(s) THEN <<>>
    ELSE IF LitAt(s, i, pat) THEN ReplaceFrom(s, i + Len(pat), pat)
    ELSE <<s[i]>> \o ReplaceFrom(s, i + 1, pat)

Replace(s, pat) == ReplaceFrom(s, 1, pat)

\* str.strip()
Strip(s) ==
    LET ns == {i \in 1..Len(s) : s[i] \notin Whitespace}
    IN IF ns = {} THEN <<>>
       ELSE SubSeq(s, CHOOSE i \in ns : \A j \in ns : i <= j,
                      CHOOSE i \in ns : \A j \in ns : i >= j)

\* the text generate_audio is left with before it tests text.strip()
CleanText(t) ==
    Replace(Replace(Replace(Replace(ReSub(t), <<"(", ")">>), <<FullOpen, FullClose>>),
                    <<"[", "]">>), <<LentOpen, LentClose>>)

ResponseFormat == "mp3"
NoHint == "None"

\* the value generate_cache_file_name returns
CachePath(hint) == <<"cache", IF hint = NoHint THEN "temp" ELSE hint, ResponseFormat>>

\* ------------------------------------------------------------------- state
VARIABLES
    has_attr,        \* hasattr(self, "_in_brackets")
    in_brackets,     \* self._in_brackets (meaningful when has_attr)
    op,              \* the last operation on the filter: "init", "filter", "session"
    text,            \* argument of the last _filter_stream_text call
    result,          \* its return value
    pre_in,          \* _in_brackets when its scan began
    filtered_chars,  \* positions of text its scan appended to filtered_chars
    kept,            \* positions of text that make up result
    session,         \* number of the streamed response being spoken
    stream,          \* characters of that response not yet delivered
    start_in,        \* _in_brackets when the response began
    all_in,          \* concatenation of the fragments delivered so far
    out_pos,         \* positions of all_in that make up the returned fragments
    fs_writable,     \* whether the working directory can be written
    api_url,         \* self.api_url is not None
    cache_dir,       \* os.path.exists("cache")
    files,           \* audio files written under cache/
    worker           \* the asyncio.to_thread workers running generate_audio

callVars == <<has_attr, in_brackets, op, text, result, pre_in, filtered_chars, kept>>
sessVars == <<session, stream, start_in, all_in, out_pos>>
dispVars == <<fs_writable, api_url, cache_dir, files, worker>>
vars == <<callVars, sessVars, dispVars>>

all_out == Join(all_in, out_pos)

\* ------------------------------------------------------------------ inputs
Alphabet == {"(", ")", FullOpen, FullClose, "A"}

SampleStreams == {
    <<"A", "(", "B", "C", ")", "D">>,
    <<"A", FullOpen, "B", ")", "C">>,
    <<"(", "A", "(", "B", ")", "C", ")", "D">>,
    <<"s", "e", "e", " ", "h", "t", "t", "p", ":", "/", "/", "x", ".", "c", "o", "m",
      "/", "y", " ", "n", "o", "w">>,
    <<"h", "t", "t", "p", "s", ":", "/", "/", "x", " ", "h", "t", "t", "p", ":", "/", "/", "y">>,
    <<"h", "t", "t", "p", ":", "/", "h", "t", "t", "p", ":", "/", "/", "x", " ", "y">>,
    <<"h", "t", "t", "p", "s", "h", "t", "t", "p", ":", "/", "/", " ", "x">>,
    <<"(", "o", "n", "l", "y", " ", "l", "i", "n", "k", ")">>,
    <<"A", " ", "B">> }

Streams == SampleStreams \cup UNION {[1..n -> Alphabet] : n \in 0..MaxLen}

Workers == 1..MaxWorkers

\* texts handed to async_generate_audio
OnlyLinkContent ==
    <<"(", "o", "n", "l", "y", " ", "l", "i", "n", "k", " ", "c", "o", "n", "t", "e", "n",
      "t", ")">>

DispatchTexts == {
    OnlyLinkContent,
    <<"A">>,
    <<"(", "A">>,
    <<" ">>,
    <<"[", "]">>,
    <<"h", "t", "t", "p", ":", "/", "/", "x">>,
    <<>> }

\* the file_name_no_ext of the w-th dispatch, when one is given
HintNames == <<"a", "b", "c", "d">>

\* a worker: where it is in generate_audio (pc), the original and the filtered
\* text, the name hint, the value of cache_file, the value returned to the
\* caller (<<>> is ""), the exception that reached the caller, and whether it
\* sent the HTTP request, created the cache directory, wrote the audio file
IdleWorker == [pc |-> "idle", orig |-> <<>>, text |-> <<>>, hint |-> NoHint,
               cache_file |-> <<>>, ret |-> <<>>, raised |-> "none", http |-> FALSE,
               mkdir |-> FALSE, wrote |-> FALSE]

\* -------------------------------------------------------------------- Init
InitCall ==
    /\ has_attr = FALSE
    /\ in_brackets = FALSE
    /\ op = "init"
    /\ text = PyNone
    /\ result = PyNone
    /\ pre_in = FALSE
    /\ filtered_chars = <<>>
    /\ kept = <<>>

InitSession(s) ==
    /\ session = 1
    /\ stream = s
    /\ start_in = FALSE
    /\ all_in = <<>>
    /\ out_pos = <<>>

Init ==
    /\ InitCall
    /\ \E s \in Streams : InitSession(s)
    /\ fs_writable = TRUE
    /\ api_url = TRUE
    /\ cache_dir = FALSE
    /\ files = {}
    /\ worker = [w \in Workers |-> IdleWorker]

\* ----------------------------------------------------------------- actions
\* One call self._filter_stream_text(t): the effect on the instance and the
\* record of the call.
CallFilter(t) ==
    LET r == FilterStreamText(t, has_attr, in_brackets)
    IN /\ has_attr' = r.has
       /\ in_brackets' = r.in_brackets
       /\ op' = "filter"
       /\ text' = t
       /\ result' = r.ret
       /\ pre_in' = r.pre
       /\ filtered_chars' = r.filtered_chars
       /\ kept' = r.kept

\* The next n characters of the response arrive as one fragment and are
\* filtered.
FilterFragment ==
    \E n \in 1..Len(stream) :
        /\ CallFilter(Str(SubSeq(stream, 1, n)))
        /\ stream' = SubSeq(stream, n + 1, Len(stream))
        /\ all_in' = all_in \o SubSeq(stream, 1, n)
        /\ out_pos' = out_pos \o [k \in 1..Len(kept') |-> Len(all_in) + kept'[k]]
        /\ UNCHANGED <<session, start_in, dispVars>>

\* A call with a text for which `not text` holds: None or "".
FilterFalsy ==
    \E t \in {PyNone, Str(<<>>)} :
        /\ CallFilter(t)
        /\ UNCHANGED <<sessVars, dispVars>>

\* The response is over and the next one begins, on the same TTS instance.
\* Nothing in the source touches _in_brackets between two responses; the
\* record of the last call starts afresh.
StartSession ==
    /\ stream = <<>>
    /\ session < MaxSessions
    /\ \E s \in Streams :
        /\ session' = session + 1
        /\ stream' = s
        /\ start_in' = (has_attr /\ in_brackets)
        /\ all_in' = <<>>
        /\ out_pos' = <<>>
    /\ op' = "session"
    /\ text' = PyNone
    /\ result' = PyNone
    /\ pre_in' = FALSE
    /\ filtered_chars' = <<>>
    /\ kept' = <<>>
    /\ UNCHANGED <<has_attr, in_brackets, dispVars>>

Next == FilterFragment \/ FilterFalsy \/ StartSession

Spec == Init /\ [][Next]_vars


\* ------------------------------------------------------------ the dispatcher
InitDispatch ==
    /\ InitCall
    /\ InitSession(<<>>)
    /\ fs_writable \in BOOLEAN
    /\ api_url \in BOOLEAN
    /\ cache_dir \in BOOLEAN
    /\ files = {}
    /\ worker = [w \in Workers |-> IdleWorker]

\* async_generate_audio(t, h), the w-th dispatch: the filter runs on the event
\* loop, then generate_audio is handed to a thread.
Dispatch(w) ==
    /\ worker[w].pc = "idle"
    /\ \A v \in Workers : v < w => worker[v].pc # "idle"
    /\ \E t \in DispatchTexts : \E h \in {NoHint, HintNames[w]} :
        /\ CallFilter(Str(t))
        /\ worker' = [worker EXCEPT ![w] = [IdleWorker EXCEPT !.pc = "gen", !.orig = t,
                                              !.text = result'.chars, !.hint = h]]
    /\ UNCHANGED <<sessVars, fs_writable, api_url, cache_dir, files>>

\* generate_audio up to the os.path.exists test of generate_cache_file_name,
\* without the test of text.strip()
GenerateAudioBeginNoSkip(w) ==
    /\ worker[w].pc = "gen"
    /\ worker' = [worker EXCEPT ![w] =
                      IF cache_dir
                      THEN [@ EXCEPT !.pc = "request", !.cache_file = CachePath(worker[w].hint)]
                      ELSE [@ EXCEPT !.pc = "makedirs"]]
    /\ UNCHANGED <<callVars, sessVars, fs_writable, api_url, cache_dir, files>>

\* generate_audio up to the os.path.exists test of generate_cache_file_name
GenerateAudioBegin(w) ==
    /\ worker[w].pc = "gen"
    /\ worker' = [worker EXCEPT ![w] =
                      IF Strip(CleanText(worker[w].text)) = <<>>
                      THEN [@ EXCEPT !.pc = "done", !.ret = <<>>]
                      ELSE IF cache_dir
                      THEN [@ EXCEPT !.pc = "request", !.cache_file = CachePath(worker[w].hint)]
                      ELSE [@ EXCEPT !.pc = "makedirs"]]
    /\ UNCHANGED <<callVars, sessVars, fs_writable, api_url, cache_dir, files>>

\* os.makedirs(cache_dir) and the rest of generate_cache_file_name; an
\* exception leaves generate_audio, which calls it outside its try
MakeDirs(w) ==
    /\ worker[w].pc = "makedirs"
    /\ IF cache_dir
       THEN /\ worker' = [worker EXCEPT ![w] = [@ EXCEPT !.pc = "done",
                                                           !.raised = "FileExistsError"]]
            /\ UNCHANGED cache_dir
       ELSE IF ~fs_writable
       THEN /\ worker' = [worker EXCEPT ![w] = [@ EXCEPT !.pc = "done",
                                                           !.raised = "PermissionError"]]
            /\ UNCHANGED cache_dir
       ELSE /\ cache_dir' = TRUE
            /\ worker' = [worker EXCEPT ![w] = [@ EXCEPT !.pc = "request", !.mkdir = TRUE,
                                                           !.cache_file = CachePath(worker[w].hint)]]
    /\ UNCHANGED <<callVars, sessVars, fs_writable, api_url, files>>

\* the try block of generate_audio: the request, the write, the return
Request(w) ==
    /\ worker[w].pc = "request"
    /\ IF ~api_url
       THEN /\ worker' = [worker EXCEPT ![w] = [@ EXCEPT !.pc = "done", !.ret = <<>>]]
            /\ UNCHANGED files
       ELSE \E response \in {"ok", "connection_error", "http_error"} :
            IF response = "ok" /\ fs_writable
            THEN /\ files' = files \cup {worker[w].cache_file}
                 /\ worker' = [worker EXCEPT ![w] = [@ EXCEPT !.pc = "done", !.http = TRUE,
                                                                !.wrote = TRUE,
                                                                !.ret = worker[w].cache_file]]
            ELSE /\ worker' = [worker EXCEPT ![w] = [@ EXCEPT !.pc = "done", !.http = TRUE,
                                                                !.ret = <<>>]]
                 /\ UNCHANGED files
    /\ UNCHANGED <<callVars, sessVars, fs_writable, api_url, cache_dir>>

NextDispatch ==
    \E w \in Workers :
        \/ Dispatch(w)
        \/ GenerateAudioBegin(w)
        \/ MakeDirs(w)
        \/ Request(w)

SpecDispatch == InitDispatch /\ [][NextDispatch]_vars

\* ================================================================== claims
Brackets == OpenBrackets \cup CloseBrackets
Letters == {"a", "b", "c", "e", "f", "h", "i", "k", "l", "m", "n", "o", "p", "s", "t",
            "w", "x", "y"}

Count(s, a, b, S) == Cardinality({k \in a..b : s[k] \in S})

\* s[j] is an opening bracket and s[k] the closing bracket that matches it
Matches(s, j, k) ==
    /\ s[j] \in OpenBrackets
    /\ s[k] \in CloseBrackets
    /\ Count(s, j, k, OpenBrackets) = Count(s, j, k, CloseBrackets)
    /\ \A m \in j..(k - 1) : Count(s, j, m, OpenBrackets) > Count(s, j, m, CloseBrackets)

\* position i of s lies between an opening bracket and its matching closing one
Enclosed(s, i) ==
    \E j \in 1..(i - 1) : \E k \in (i + 1)..Len(s) : Matches(s, j, k)

\* a URL scheme://... starts at position i of s
SchemeUrlAt(s, i) ==
    \E j \in i..Len(s) :
        /\ \A m \in i..j : s[m] \in Letters
        /\ LitAt(s, j + 1, <<":", "/", "/">>)
        /\ j + 4 <= Len(s)
        /\ s[j + 4] \notin Whitespace

NoHttpUrl(s) == \A i \in 1..Len(s) : UrlMatchEnd(s, i) = 0
NoBracket(s) == \A i \in 1..Len(s) : s[i] \notin Brackets

\* the last call was _filter_stream_text on a non-empty str
Filtered == op = "filter" /\ ~Falsy(text)

\* C1: in a response that began with _in_brackets false, no character of the
\* returned fragments lies, in the concatenated input, between an opening
\* bracket and its matching closing bracket, nested pairs included.
C1_NoEnclosedCharSpoken ==
    start_in = FALSE => \A p \in Range(out_pos) : ~Enclosed(all_in, p)

\* The reference step of the scan: the state after the character and whether
\* the character is emitted.
RefStep(c, inb) ==
    [in_brackets |-> IF c \in OpenBrackets THEN TRUE
                     ELSE IF c \in CloseBrackets THEN FALSE
                     ELSE inb,
     emit |-> c \notin Brackets /\ ~inb]

\* the reference state before character i of t, from the starting state
RECURSIVE RefStateAt(_, _, _)
RefStateAt(t, start, i) ==
    IF i = 1 THEN start ELSE RefStep(t[i - 1], RefStateAt(t, start, i - 1)).in_brackets

RefEmitted(t, start) == {i \in 1..Len(t) : RefStep(t[i], RefStateAt(t, start, i)).emit}

\* C2: the scan of every fragment, from either starting state, emits exactly
\* the characters the reference step emits, in order, and ends in the state
\* the reference ends in; brackets of the two kinds close one another:
\* "A" FullOpen "B" ")" "C" from the Speaking state yields "AC".
C2_ScanIsReferenceStep ==
    Filtered =>
        /\ Range(filtered_chars) = RefEmitted(text.chars, pre_in)
        /\ \A a, b \in DOMAIN filtered_chars : a < b => filtered_chars[a] < filtered_chars[b]
        /\ in_brackets = RefStateAt(text.chars, pre_in, Len(text.chars) + 1)
        /\ (text.chars = <<"A", FullOpen, "B", ")", "C">> /\ ~pre_in)
               => result.chars = <<"A", "C">>

C2_Witness ==
    /\ Filtered
    /\ text.chars = <<"A", FullOpen, "B", ")", "C">>
    /\ ~pre_in
    /\ result.chars = <<"A", "C">>

\* position of the first closing bracket of t, 0 if it has none
FirstClose(t) ==
    IF \E i \in 1..Len(t) : t[i] \in CloseBrackets
    THEN CHOOSE i \in 1..Len(t) :
             t[i] \in CloseBrackets /\ \A m \in 1..(i - 1) : t[m] \notin CloseBrackets
    ELSE 0

\* C3: a call that starts with _in_brackets true returns nothing of the
\* characters up to the first closing bracket of its fragment; with no closing
\* bracket it returns "" and leaves _in_brackets true; a non-bracket character
\* right after that closing bracket is emitted by the scan again.
\* "A(B" then "C)D" yields "A" then "D".
C3_SuppressionPersists ==
    /\ (Filtered /\ pre_in) =>
          LET c == FirstClose(text.chars)
          IN /\ \A p \in Range(kept) : c > 0 /\ p > c
             /\ c = 0 => (result = Str(<<>>) /\ has_attr /\ in_brackets)
             /\ (c > 0 /\ c < Len(text.chars) /\ text.chars[c + 1] \notin Brackets)
                    => (c + 1) \in Range(filtered_chars)
    /\ (Filtered /\ session = 1 /\ all_in = <<"A", "(", "B", "C", ")", "D">>
          /\ text.chars = <<"C", ")", "D">>)
          => (result.chars = <<"D">> /\ all_out = <<"A", "D">>)

C3_Witness ==
    /\ Filtered
    /\ pre_in
    /\ all_in = <<"A", "(", "B", "C", ")", "D">>
    /\ text.chars = <<"C", ")", "D">>
    /\ result.chars = <<"D">>
    /\ all_out = <<"A", "D">>

C5_SessionStartsSpeaking ==
    start_in = FALSE

\* C6: for None and for "" the call returns "".
C6_FalsyYieldsEmptyString ==
    (op = "filter" /\ Falsy(text)) => result = Str(<<>>)

\* C7 as stated: a text with no bracket and no URL is returned unchanged at
\* any point of a response.
C7_CleanTextUnchanged ==
    (op = "filter" /\ text.kind = "str" /\ NoBracket(text.chars) /\ NoHttpUrl(text.chars))
        => result = text

\* C7 amended: it is returned unchanged when _in_brackets is false as the call
\* begins.
C7_CleanTextUnchangedWhenSpeaking ==
    (op = "filter" /\ text.kind = "str" /\ NoBracket(text.chars) /\ NoHttpUrl(text.chars)
       /\ ~pre_in)
        => result = text

C7_Witness ==
    /\ Filtered
    /\ NoBracket(text.chars)
    /\ NoHttpUrl(text.chars)
    /\ ~pre_in
    /\ \E i \in 1..(Len(all_in) - Len(text.chars)) : all_in[i] \in CloseBrackets
    /\ result = text

AllWhitespace(s) == \A i \in 1..Len(s) : s[i] \in Whitespace

\* C8: no dispatch lets an exception reach its caller.
C8_DispatchNeverRaises ==
    \A w \in Workers : worker[w].raised = "none"

\* C9: with a writable working directory and distinct name hints, every call
\* of generate_cache_file_name that is over returned cache/<hint>.<format>,
\* the directory exists, and no call failed.
C9_ConcurrentCacheNameSafe ==
    (/\ fs_writable
     /\ \A v, w \in Workers :
            (v # w /\ worker[v].pc # "idle" /\ worker[w].pc # "idle")
                => worker[v].hint # worker[w].hint)
        => \A w \in Workers :
               (worker[w].pc \in {"request", "done"}
                  /\ ~AllWhitespace(CleanText(worker[w].text)))
                   => /\ worker[w].raised = "none"
                      /\ worker[w].cache_file = CachePath(worker[w].hint)
                      /\ cache_dir

\* C10: a dispatch whose filtered text is empty once trimmed returns "" and
\* has sent no HTTP request, written no cache file, created no cache
\* directory; the filter moved _in_brackets as the fragment's brackets say.
C10_BlankTextSkipsBackend ==
    /\ \A w \in Workers :
           (worker[w].pc = "done" /\ AllWhitespace(worker[w].text))
               => /\ worker[w].ret = <<>>
                  /\ worker[w].raised = "none"
                  /\ ~worker[w].http
                  /\ ~worker[w].mkdir
                  /\ ~worker[w].wrote
                  /\ worker[w].cache_file = <<>>
    /\ (\A w \in Workers : AllWhitespace(worker[w].text))
           => (files = {} /\ \A w \in Workers : ~worker[w].mkdir)
    /\ (Filtered /\ AllWhitespace(result.chars))
           => in_brackets = RefStateAt(text.chars, pre_in, Len(text.chars) + 1)

C10_Witness ==
    \E v, w \in Workers :
        /\ worker[v].pc = "done"
        /\ worker[v].orig = <<"(", "A">>
        /\ worker[w].pc = "done"
        /\ worker[w].orig = OnlyLinkContent
        /\ worker[w].ret = <<>>
        /\ ~cache_dir
        /\ has_attr
        /\ ~in_brackets

====
